---- MODULE Spec2Model ----
(***************************************************************************)
(* A model of evaluate-boggle-grid.py: the BoggleEvaluator (word trie,     *)
(* depth-first traversal of a letter grid, scoring), its two optimizers    *)
(* (random search, hill climbing) and main().                              *)
(*                                                                         *)
(* Strings are sequences of one-letter strings, Python lists indexed from  *)
(* 0 are functions on 0..n-1, and a dict is a function on its key set.     *)
(* Python's None is the value None below.                                  *)
(***************************************************************************)
EXTENDS Integers, Sequences, FiniteSets, TLC

VARIABLES
    arg_size,       \* args.size: "standard" or "big"
    word_list,      \* the loaded word list (a sequence of words)
    word_set,       \* self.word_set
    word_trie,      \* self.word_trie
    rng,            \* the state of the global random generator
    grid,           \* the grid last passed to calculate_grid_score
    score,          \* the total it returned
    words,          \* the found-words map it returned
    evaluated,      \* the grids the evaluator was asked to score, in order
    first_words,    \* per grid evaluated so far, the map of its first evaluation
    depth,          \* the most dfs calls that were active at once in the evaluator's last run
    args,           \* args.method, args.iterations, and args.seed unless it is None
    pc,             \* where main() is
    main,           \* the local variables main() has assigned so far
    opt,            \* the local variables of the optimizer that is running
    error           \* the exception that ended main(), or None

lastVars == <<grid, score, words>>
histVars == <<evaluated, first_words, depth>>
evalVars == <<lastVars, histVars>>
selfVars == <<arg_size, word_list, word_set, word_trie>>
mainVars == <<args, pc, main, opt, error>>
vars == <<selfVars, rng, evalVars, mainVars>>

\* a value that is no grid, no dict, and no list of letters or dice
None == <<"None">>

\* an exception: its type, and the name it is about
NameError(name) == <<"NameError", name>>

(***************************************************************************)
(* Bounds of the model.                                                    *)
(***************************************************************************)
\* word lists are the first n words of Lexicon, n <= MaxWords
MaxWords == 10
\* random streams start from the states of NumSeeds seeds
NumSeeds == 1
\* the evaluator alone is run on at most MaxEvals grids
MaxEvals == 3
\* the trie is asked about paths of at most MaxPath + 1 letters
MaxPath == 9
\* the unseeded generator starts in one of NumEntropy states
NumEntropy == 2

\* args.iterations is at most MaxIterUnseeded when the generator is not seeded
MaxIterUnseeded == 0

\* args.iterations is at most MaxIter
MaxIter == 3
\* hill climbing starts from a new grid every RestartEvery iterations (1000 in the
\* source, and the progress report every 500: half of it)
RestartEvery == 2

(***************************************************************************)
(* Small helpers for Python values.                                        *)
(***************************************************************************)
EmptyDict == <<>>

\* a list indexed from 0 holding the elements of the sequence s
List0(s) == [k \in 0..(Len(s) - 1) |-> s[k + 1]]

\* Python evaluates an argument before the call it is passed to; TLC evaluates an
\* operator's argument when it is first read.  Strict(v) reads v, so that a loop
\* written as a recursion evaluates its accumulator round by round.
Strict(v) == v = v

\* list(d.values()) summed, as sum() does
RECURSIVE SumValues(_, _)
SumValues(d, keys) ==
    IF keys = {} THEN 0
    ELSE LET k == CHOOSE x \in keys : TRUE
         IN d[k] + SumValues(d, keys \ {k})

(***************************************************************************)
(* BoggleEvaluator.__init__                                                *)
(***************************************************************************)
size == IF arg_size = "big" THEN 5 ELSE 4

\* self.scoring
scoring == (3 :> 1) @@ (4 :> 1) @@ (5 :> 2) @@ (6 :> 3) @@ (7 :> 5) @@ (8 :> 11)

\* mutant: a lookup that ignores the default
scoring_get_nodefault(n, default) == IF n \in DOMAIN scoring THEN scoring[n] ELSE 0

\* self.scoring.get(n, default)
scoring_get(n, default) == IF n \in DOMAIN scoring THEN scoring[n] ELSE default

BigDice == <<
    <<"A","A","A","F","R","S">>, <<"A","A","E","E","E","E">>, <<"A","A","F","I","R","S">>,
    <<"A","D","E","N","N","N">>, <<"A","E","E","E","E","M">>, <<"A","E","E","G","M","U">>,
    <<"A","E","G","M","N","N">>, <<"A","F","I","R","S","Y">>, <<"B","J","K","Q","X","Z">>,
    <<"C","C","E","N","S","T">>, <<"C","E","I","I","L","T">>, <<"C","E","I","L","P","T">>,
    <<"C","E","I","P","S","T">>, <<"D","D","H","N","O","T">>, <<"D","H","H","L","O","R">>,
    <<"D","H","L","N","O","R">>, <<"E","I","I","I","T","T">>, <<"E","M","O","T","T","T">>,
    <<"E","N","S","S","S","U">>, <<"F","I","P","R","S","Y">>, <<"G","O","R","R","V","W">>,
    <<"H","I","P","R","R","Y">>, <<"N","O","O","T","U","W">>, <<"O","O","O","T","T","U">>,
    <<"A","A","E","E","E","E">> >>

StandardDice == <<
    <<"A","A","E","E","G","N">>, <<"A","B","B","J","O","O">>, <<"A","C","H","O","P","S">>,
    <<"A","F","F","K","P","S">>, <<"A","O","O","T","T","W">>, <<"C","I","M","O","T","U">>,
    <<"D","E","I","L","R","X">>, <<"D","E","L","R","V","Y">>, <<"D","I","S","T","T","Y">>,
    <<"E","E","G","H","N","W">>, <<"E","E","I","N","S","U">>, <<"E","H","R","T","V","W">>,
    <<"E","I","O","S","S","T">>, <<"E","L","R","T","T","Y">>, <<"H","I","M","N","U","Q">>,
    <<"H","L","N","N","R","Z">> >>

\* self.dice
dice == List0(IF arg_size = "big" THEN BigDice ELSE StandardDice)

(***************************************************************************)
(* make_trie / in_trie.  The nested dicts are kept as the set of their key *)
(* paths: <<"C","A">> is in the set iff trie["C"]["A"] exists, and         *)
(* <<"C","A","T","_end_">> iff trie["C"]["A"]["T"] holds the end marker.   *)
(***************************************************************************)
\* mutant: the end marker is not set
RECURSIVE make_trie_word_unmarked(_, _, _)
make_trie_word_unmarked(trie, word, k) ==
    IF k > Len(word) THEN trie
    ELSE make_trie_word_unmarked(trie \cup {SubSeq(word, 1, k)}, word, k + 1)

\* the inner loop of make_trie: step.setdefault(letter, {}) for each letter
RECURSIVE make_trie_word(_, _, _)
make_trie_word(trie, word, k) ==
    IF k > Len(word) THEN trie \cup {Append(word, "_end_")}
    ELSE make_trie_word(trie \cup {SubSeq(word, 1, k)}, word, k + 1)

RECURSIVE make_trie_from(_, _, _)
make_trie_from(trie, ws, n) ==
    IF n > Len(ws) THEN trie
    ELSE make_trie_from(make_trie_word(trie, ws[n], 1), ws, n + 1)

make_trie(ws) == make_trie_from({}, ws, 1)

RECURSIVE in_trie_from(_, _)
in_trie_from(path, k) ==
    IF k > Len(path) THEN TRUE
    ELSE IF SubSeq(path, 1, k) \notin word_trie THEN FALSE
    ELSE in_trie_from(path, k + 1)

\* mutant: the last letter of the path is not looked up
in_trie_parent(path) == in_trie_from(SubSeq(path, 1, Len(path) - 1), 1)

in_trie(path) == in_trie_from(path, 1)

(***************************************************************************)
(* get_neighbors, dfs, find_words_in_grid, calculate_grid_score            *)
(***************************************************************************)
Deltas == << <<-1,-1>>, <<-1,0>>, <<-1,1>>, <<0,-1>>, <<0,0>>, <<0,1>>,
             <<1,-1>>, <<1,0>>, <<1,1>> >>

RECURSIVE neighbors_from(_, _, _)
neighbors_from(row, col, k) ==
    IF k > Len(Deltas) THEN <<>>
    ELSE LET dr == Deltas[k][1]
             dc == Deltas[k][2]
             nr == row + dr
             nc == col + dc
             rest == neighbors_from(row, col, k + 1)
         IN IF (dr = 0 /\ dc = 0) \/ ~(0 <= nr /\ nr < size) \/ ~(0 <= nc /\ nc < size)
            THEN rest
            ELSE <<(<<nr, nc>>)>> \o rest

\* mutant: the four orthogonal neighbours only
get_neighbors_orthogonal(row, col) ==
    SelectSeq(neighbors_from(row, col, 1), LAMBDA c : c[1] = row \/ c[2] = col)

get_neighbors(row, col) == neighbors_from(row, col, 1)

RECURSIVE dfs(_, _, _, _, _)
RECURSIVE dfs_neighbors(_, _, _, _, _)

\* the loop "for nr, nc in self.get_neighbors(row, col)" of dfs, from its k-th round
dfs_neighbors(g, nbrs, k, path, found_words) ==
    IF Strict(found_words) /\ k > Len(nbrs) THEN found_words
    ELSE LET nr == nbrs[k][1]
             nc == nbrs[k][2]
             new_path == Append(path, g[nr][nc])
         IN dfs_neighbors(g, nbrs, k + 1, path, dfs(g, nr, nc, new_path, found_words))

\* mutant: two-letter paths are recorded too
dfs_short(g, row, col, path, found_words) ==
    IF ~in_trie(path) THEN found_words
    ELSE LET recorded ==
                 IF Len(path) >= 2 /\ path \in word_set /\ path \notin DOMAIN found_words
                 THEN found_words @@ (path :> scoring_get(Len(path), 11))
                 ELSE found_words
         IN dfs_neighbors(g, get_neighbors(row, col), 1, path, recorded)

dfs(g, row, col, path, found_words) ==
    IF ~in_trie(path) THEN found_words
    ELSE LET recorded ==
                 IF Len(path) >= 3 /\ path \in word_set /\ path \notin DOMAIN found_words
                 THEN found_words @@ (path :> scoring_get(Len(path), 11))
                 ELSE found_words
         IN dfs_neighbors(g, get_neighbors(row, col), 1, path, recorded)

\* the two loops of find_words_in_grid, from cell number n (row-major)
RECURSIVE find_words_from(_, _, _)
find_words_from(g, n, found_words) ==
    IF Strict(found_words) /\ n >= size * size THEN found_words
    ELSE LET i == n \div size
             j == n % size
         IN find_words_from(g, n + 1, dfs(g, i, j, <<g[i][j]>>, found_words))

\* mutant: the accumulator of the previous call is used again
find_words_in_grid_shared(g) == find_words_from(g, 0, words)

find_words_in_grid(g) == find_words_from(g, 0, EmptyDict)

\* the greatest of a set of numbers
Max(S) == CHOOSE n \in S : \A m \in S : m <= n

\* the calls of dfs that are active at once, at most, from the call
\* dfs(g, row, col, path, ...) on: the call itself, and below it the deepest of the
\* calls its loop over the neighbors makes
RECURSIVE dfs_depth(_, _, _, _)
dfs_depth(g, row, col, path) ==
    IF ~in_trie(path) THEN 1
    ELSE LET nbrs == get_neighbors(row, col)
         IN 1 + Max({dfs_depth(g, nbrs[k][1], nbrs[k][2],
                               Append(path, g[nbrs[k][1]][nbrs[k][2]])) :
                        k \in 1..Len(nbrs)})

\* the same for find_words_in_grid, over its calls of dfs from every cell
find_words_depth(g) ==
    Max({dfs_depth(g, i, j, <<g[i][j]>>) : i \in 0..(size - 1), j \in 0..(size - 1)})

calculate_grid_score(g) ==
    LET found_words == find_words_in_grid(g)
    IN [score |-> SumValues(found_words, DOMAIN found_words), words |-> found_words]

(***************************************************************************)
(* The random module.  The generator is a small linear congruential one:   *)
(* a run's draws are a function of the state it starts from.               *)
(***************************************************************************)
RngNext(s) == (75 * s + 74) % 65537

\* random.seed(n)
Seeded(n) == RngNext(RngNext((n * 7919 + 13) % 65537))

\* the value of a draw below n in state s (the state after it is RngNext(s))
RandBelow(s, n) == (s \div 7) % n

\* random.choice(seq)
choice(s, seq) == seq[RandBelow(s, Len(seq)) + 1]

\* random.shuffle(x): for i in reversed(range(1, len(x))): swap x[i], x[randbelow(i + 1)]
RECURSIVE shuffle_from(_, _, _)
shuffle_from(x, i, s) ==
    IF i < 1 THEN [list |-> x, rng |-> s]
    ELSE LET j == RandBelow(s, i + 1)
         IN shuffle_from([x EXCEPT ![i] = x[j], ![j] = x[i]], i - 1, RngNext(s))

shuffle(x, s) == shuffle_from(x, Cardinality(DOMAIN x) - 1, s)

\* letters = [random.choice(die) for die in dice], from die number k
RECURSIVE roll_from(_, _, _, _)
roll_from(ds, k, letters, s) ==
    IF k >= Cardinality(DOMAIN ds) THEN [letters |-> letters, rng |-> s]
    ELSE roll_from(ds, k + 1, letters @@ (k :> choice(s, ds[k])), RngNext(s))

generate_random_grid(s) ==
    LET shuffled == shuffle(dice, s)
        rolled == roll_from(shuffled.list, 0, <<>>, shuffled.rng)
    IN [grid |-> [i \in 0..(size - 1) |-> [j \in 0..(size - 1) |-> rolled.letters[i * size + j]]],
        dice |-> shuffled.list,
        rng |-> rolled.rng]


(***************************************************************************)
(* Inputs: word lists, random streams and grids.                           *)
(***************************************************************************)
Lexicon == <<
    <<"C","A","T">>, <<"C","A","T","S">>, <<"A","T">>, <<"T","A","T">>,
    <<"T","E","N">>, <<"T","E","N","E","T">>, <<"T","E","N","E","T","S">>,
    <<"E","N","T","E","N","T","E">>, <<"E","N","T","E","N","T","E","S">>,
    <<"T","E","N","S","E","N","E","S","S">>,
    <<"C","A","T">>, <<"S","E","T">>, <<"E","A","T">> >>

Min(a, b) == IF a < b THEN a ELSE b

WordLists == {SubSeq(Lexicon, 1, Min(n, Len(Lexicon))) : n \in 0..MaxWords}

\* the elements of a list, as set() collects them
Elements(ws) == {ws[k] : k \in 1..Len(ws)}

Row(a, b, c, d) == List0(<<a, b, c, d>>)
XRow == Row("X", "X", "X", "X")

\* 4x4 grids given by hand
TestGrids == <<
    List0(<<Row("C","A","T","X"), XRow, XRow, XRow>>),
    List0(<<Row("E","N","S","X"), Row("T","S","X","X"), XRow, XRow>>),
    List0(<<Row("C","A","X","X"), Row("T","S","X","A"), XRow, Row("X","X","X","T")>>) >>

(***************************************************************************)
(* The evaluator alone: constructed from a word list, then asked to score  *)
(* grids one after the other.                                              *)
(***************************************************************************)
\* evaluator.calculate_grid_score(g), and the record of what it returned
Evaluate(g) ==
    LET r == calculate_grid_score(g)
    IN /\ grid' = g
       /\ score' = r.score
       /\ words' = r.words
       /\ evaluated' = Append(evaluated, g)
       /\ first_words' = IF g \in DOMAIN first_words THEN first_words
                         ELSE first_words @@ (g :> r.words)
       /\ depth' = find_words_depth(g)

InitSelf ==
    /\ arg_size \in {"standard", "big"}
    /\ word_set = Elements(word_list)
    /\ word_trie = make_trie(word_list)

InitEval ==
    /\ word_list \in WordLists
    /\ InitSelf
    /\ rng = Seeded(1)
    /\ grid = None
    /\ score = 0
    /\ words = EmptyDict
    /\ evaluated = <<>>
    /\ first_words = EmptyDict
    /\ depth = 0
    /\ args = None
    /\ pc = "evaluator"
    /\ main = EmptyDict
    /\ opt = None
    /\ error = None

\* a grid from generate_random_grid is scored
EvalGenerated ==
    /\ Len(evaluated) < MaxEvals
    /\ LET gen == generate_random_grid(rng)
       IN /\ Evaluate(gen.grid)
          /\ rng' = gen.rng
    /\ UNCHANGED <<selfVars, mainVars>>

\* a grid given by hand is scored
EvalTestGrid ==
    /\ Len(evaluated) < MaxEvals
    /\ arg_size = "standard"
    /\ \E k \in 1..Len(TestGrids) : Evaluate(TestGrids[k])
    /\ UNCHANGED <<selfVars, rng, mainVars>>

\* a grid scored before is scored again
EvalAgain ==
    /\ Len(evaluated) < MaxEvals
    /\ \E g \in DOMAIN first_words : Evaluate(g)
    /\ UNCHANGED <<selfVars, rng, mainVars>>

NextEval == EvalGenerated \/ EvalTestGrid \/ EvalAgain

SpecEval == InitEval /\ [][NextEval]_vars

(***************************************************************************)
(* optimize_grid_random_search                                             *)
(***************************************************************************)
\* the locals before the loop
random_search_locals ==
    [i |-> 0, best_grid |-> None, best_dice |-> dice, best_score |-> 0,
     best_words |-> EmptyDict]

\* mutant: the record is overwritten by every grid
random_search_round_any(o, gen, r) ==
    [o EXCEPT !.i = o.i + 1, !.best_dice = gen.dice, !.best_score = r.score,
              !.best_grid = gen.grid, !.best_words = r.words]

\* one round of the loop: gen is what generate_random_grid returned, r what
\* calculate_grid_score returned for its grid
random_search_round(o, gen, r) ==
    IF r.score > o.best_score
    THEN [o EXCEPT !.i = o.i + 1, !.best_dice = gen.dice, !.best_score = r.score,
                   !.best_grid = gen.grid, !.best_words = r.words]
    ELSE [o EXCEPT !.i = o.i + 1, !.best_dice = gen.dice]

(***************************************************************************)
(* optimize_grid_hill_climbing                                             *)
(***************************************************************************)
\* the locals before the loop; gen is what generate_random_grid may have to return
hill_climbing_locals(initial_grid, initial_dice, gen, r) ==
    LET current_grid == IF initial_grid = None THEN gen.grid ELSE initial_grid
        current_dice == IF initial_grid = None THEN gen.dice ELSE initial_dice
    IN [iteration |-> 0, i |-> 0, j |-> 0, improved |-> FALSE,
        current_grid |-> current_grid, current_dice |-> current_dice,
        current_score |-> r.score, current_words |-> r.words,
        best_grid |-> current_grid, best_score |-> r.score, best_words |-> r.words]

\* the loop "for _ in range(5)" at cell (i, j), from its round k.  st holds the
\* optimizer's locals (o), the generator's state (rng) and the last evaluation (last).
RECURSIVE reroll_from(_, _, _)
reroll_from(k, original_letter, st) ==
    IF Strict(st) /\ k >= 5 THEN st
    ELSE LET o == st.o
             new_letter == choice(st.rng, o.current_dice[o.i + (o.j * size)])
             drawn == [st EXCEPT !.rng = RngNext(st.rng)]
         IN IF new_letter = original_letter THEN reroll_from(k + 1, original_letter, drawn)
            ELSE LET g == [o.current_grid EXCEPT ![o.i][o.j] = new_letter]
                     r == calculate_grid_score(g)
                     last == [grid |-> g, score |-> r.score, words |-> r.words]
                 IN IF r.score > o.current_score
                    THEN [drawn EXCEPT
                            !.last = last,
                            !.o = IF r.score > o.best_score
                                  THEN [o EXCEPT !.current_grid = g, !.current_score = r.score,
                                                 !.current_words = r.words, !.improved = TRUE,
                                                 !.best_score = r.score, !.best_grid = g,
                                                 !.best_words = r.words]
                                  ELSE [o EXCEPT !.current_grid = g, !.current_score = r.score,
                                                 !.current_words = r.words, !.improved = TRUE]]
                    ELSE reroll_from(k + 1, original_letter,
                                     [drawn EXCEPT !.last = last, !.o.current_grid = g])

\* the body of the two loops over the cells, for cell (o.i, o.j)
hill_climbing_cell(st) ==
    LET o == st.o
        original_letter == o.current_grid[o.i][o.j]
        tried == reroll_from(0, original_letter, st)
    IN IF ~tried.o.improved
       THEN [tried EXCEPT !.o.current_grid[o.i][o.j] = original_letter]
       ELSE tried

\* the end of an iteration: a new grid every so many iterations
hill_climbing_restart(st) ==
    LET o == st.o
        gen == generate_random_grid(st.rng)
    IN IF (o.iteration + 1) % (RestartEvery \div 2) = 0 /\ (o.iteration + 1) % RestartEvery = 0
       THEN [st EXCEPT !.o.current_grid = gen.grid, !.o.current_dice = gen.dice,
                       !.rng = gen.rng]
       ELSE st

(***************************************************************************)
(* main()                                                                  *)
(***************************************************************************)
Methods == {"random", "hillclimb", "both"}

MainWordLists == {<<>>, SubSeq(Lexicon, 1, Min(MaxWords, Len(Lexicon)))}

\* args.seed is None unless --seed is given: args then has no seed field
HasSeed(a) == "seed" \in DOMAIN a

\* "if args.seed: random.seed(args.seed)": None and 0 are both false.  entropy is
\* the state the generator took from the operating system when it was imported.
seed_random(a, entropy) ==
    IF HasSeed(a) /\ a.seed # 0 THEN Seeded(a.seed) ELSE entropy

\* states the generator may have when it is not seeded
Entropy == {Seeded(n) : n \in (NumSeeds + 1)..(NumSeeds + NumEntropy)}

\* the command lines: with a seed, with the seed 0, and without a seed
Arguments ==
    [method : Methods, iterations : 0..MaxIter, seed : 1..NumSeeds]
        \cup [method : Methods, iterations : 0..MaxIterUnseeded, seed : {0}]
        \cup [method : Methods, iterations : 0..MaxIterUnseeded]

InitMain ==
    /\ word_list \in MainWordLists
    /\ InitSelf
    /\ args \in Arguments
    /\ rng \in {seed_random(args, entropy) : entropy \in Entropy}
    /\ grid = None
    /\ score = 0
    /\ words = EmptyDict
    /\ evaluated = <<>>
    /\ first_words = EmptyDict
    /\ depth = 0
    /\ pc = "start"
    /\ main = EmptyDict
    /\ opt = None
    /\ error = None

\* the last evaluation an optimizer step ran
SetLast(last) ==
    /\ grid' = last.grid
    /\ score' = last.score
    /\ words' = last.words

\* "if score > best_score" of main, after an optimizer returned
main_best(m, method_name) ==
    IF m.score > m.best_score
    THEN [m EXCEPT !.best_grid = m.grid, !.best_score = m.score,
                   !.best_words = m.words_found, !.best_method = method_name]
    ELSE m

\* the value of a name main() reads: its local of that name, if it has assigned one
HasLocal(m, name) == name \in DOMAIN m

\* lines 323-324: the arguments of hill climbing
HillArguments(m) ==
    IF args.method = "both"
    THEN IF HasLocal(m, "best_grid") /\ HasLocal(m, "best_dice")
         THEN /\ main' = [initial_grid |-> m.best_grid, initial_dice |-> m["best_dice"]] @@ m
              /\ pc' = "hill_start"
              /\ error' = error
         ELSE /\ main' = m
              /\ pc' = "error"
              /\ error' = NameError("best_dice")
    ELSE /\ main' = [initial_grid |-> None, initial_dice |-> None] @@ m
         /\ pc' = "hill_start"
         /\ error' = error

\* lines 299-307: the locals of main are set and the first optimizer is entered
MainStart ==
    /\ pc = "start"
    /\ LET m == [best_grid |-> None, best_score |-> 0, best_words |-> EmptyDict,
                 best_method |-> ""]
       IN IF args.method \in {"random", "both"}
          THEN /\ main' = m
               /\ pc' = "random_search"
               /\ opt' = random_search_locals
               /\ error' = error
          ELSE /\ HillArguments(m)
               /\ opt' = opt
    /\ UNCHANGED <<selfVars, rng, evalVars, args>>

\* one iteration of random search
RandomRound ==
    /\ pc = "random_search"
    /\ opt.i < args.iterations
    /\ LET gen == generate_random_grid(rng)
           r == calculate_grid_score(gen.grid)
       IN /\ opt' = random_search_round(opt, gen, r)
          /\ rng' = gen.rng
          /\ SetLast([grid |-> gen.grid, score |-> r.score, words |-> r.words])
    /\ UNCHANGED <<selfVars, histVars, args, pc, main, error>>

\* random search returns, and main goes on to hill climbing or to its end
RandomReturn ==
    /\ pc = "random_search"
    /\ opt.i >= args.iterations
    /\ LET returned == [grid |-> opt.best_grid, dice |-> opt.best_dice,
                        score |-> opt.best_score, words_found |-> opt.best_words] @@ main
           m == main_best(returned, "random_search")
       IN IF args.method \in {"hillclimb", "both"}
          THEN HillArguments(m)
          ELSE /\ main' = m
               /\ pc' = "done"
               /\ error' = error
    /\ opt' = None
    /\ UNCHANGED <<selfVars, rng, evalVars, args>>

\* hill climbing is entered: its first grid is scored
HillStart ==
    /\ pc = "hill_start"
    /\ LET gen == generate_random_grid(rng)
           started == IF main.initial_grid = None THEN gen.grid ELSE main.initial_grid
           r == calculate_grid_score(started)
       IN /\ opt' = hill_climbing_locals(main.initial_grid, main.initial_dice, gen, r)
          /\ rng' = IF main.initial_grid = None THEN gen.rng ELSE rng
          /\ SetLast([grid |-> started, score |-> r.score, words |-> r.words])
    /\ pc' = "hill_climbing"
    /\ UNCHANGED <<selfVars, histVars, args, main, error>>

\* one cell of a sweep of hill climbing; after the last cell the iteration ends
HillCell ==
    /\ pc = "hill_climbing"
    /\ opt.iteration < args.iterations
    /\ LET entered == [o |-> IF opt.i = 0 /\ opt.j = 0 THEN [opt EXCEPT !.improved = FALSE]
                             ELSE opt,
                       rng |-> rng,
                       last |-> [grid |-> grid, score |-> score, words |-> words]]
           swept == hill_climbing_cell(entered)
           ended == hill_climbing_restart(swept)
       IN IF opt.j < size - 1
          THEN /\ opt' = [swept.o EXCEPT !.j = opt.j + 1]
               /\ rng' = swept.rng
               /\ SetLast(swept.last)
          ELSE IF opt.i < size - 1
          THEN /\ opt' = [swept.o EXCEPT !.i = opt.i + 1, !.j = 0]
               /\ rng' = swept.rng
               /\ SetLast(swept.last)
          ELSE /\ opt' = [ended.o EXCEPT !.iteration = opt.iteration + 1, !.i = 0, !.j = 0]
               /\ rng' = ended.rng
               /\ SetLast(ended.last)
    /\ UNCHANGED <<selfVars, histVars, args, pc, main, error>>

\* hill climbing returns, and main reports the better result
HillReturn ==
    /\ pc = "hill_climbing"
    /\ opt.iteration >= args.iterations
    /\ LET returned == [grid |-> opt.best_grid, score |-> opt.best_score,
                        words_found |-> opt.best_words] @@ main
       IN main' = main_best(returned, "hill_climbing")
    /\ pc' = "done"
    /\ opt' = None
    /\ UNCHANGED <<selfVars, rng, evalVars, args, error>>

Next == MainStart \/ RandomRound \/ RandomReturn \/ HillStart \/ HillCell \/ HillReturn

Spec == InitMain /\ [][Next]_vars

(***************************************************************************)
(* What the claims speak of: paths of cells, and the points table.         *)
(***************************************************************************)
Cells == (0..(size - 1)) \X (0..(size - 1))

\* two different cells touching by a side or a corner
Adjacent(a, b) == a # b /\ (a[1] - b[1]) \in -1..1 /\ (a[2] - b[2]) \in -1..1

\* the letters w[k..] lie on successively adjacent cells from c on, none of them in
\* `used` and none used twice
RECURSIVE SimplePathFrom(_, _, _, _, _)
SimplePathFrom(g, w, k, c, used) ==
    /\ g[c[1]][c[2]] = w[k]
    /\ \/ k = Len(w)
       \/ \E d \in Cells \ (used \cup {c}) :
              Adjacent(c, d) /\ SimplePathFrom(g, w, k + 1, d, used \cup {c})

OnSimplePath(g, w) == \E c \in Cells : SimplePathFrom(g, w, 1, c, {})

PointsForLength(n) ==
    CASE n \in {3, 4} -> 1
      [] n = 5 -> 2
      [] n = 6 -> 3
      [] n = 7 -> 5
      [] n >= 8 -> 11
      [] OTHER -> -1

\* the sum of a found-words map, counted per point value
TotalPoints(d) ==
    LET Count(p) == Cardinality({w \in DOMAIN d : d[w] = p})
    IN Count(1) + 2 * Count(2) + 3 * Count(3) + 5 * Count(5) + 11 * Count(11)

HasEvaluated == Len(evaluated) > 0

(***************************************************************************)
(* C1: every key of the found-words map has at least 3 letters and is a    *)
(* word of the word list; with an empty word list the map is empty and the *)
(* score is 0.                                                             *)
(***************************************************************************)
C1_FoundWordsAreLexiconWords ==
    /\ \A w \in DOMAIN words : Len(w) >= 3 /\ w \in Elements(word_list)
    /\ (word_list = <<>> => DOMAIN words = {} /\ score = 0)

\* a grid on which the two-letter word AT lies was scored, and CAT was found
C1_Witness ==
    /\ HasEvaluated
    /\ grid = TestGrids[1]
    /\ <<"A","T">> \in Elements(word_list)
    /\ <<"C","A","T">> \in DOMAIN words

(***************************************************************************)
(* C2: every word of the found-words map is spelled by a sequence of       *)
(* pairwise distinct, successively adjacent cells of the grid.             *)
(***************************************************************************)
C2_WordsOnSimplePaths ==
    \A w \in DOMAIN words : OnSimplePath(grid, w)

(***************************************************************************)
(* C3: every word of the list with at least 3 letters that some simple     *)
(* path of adjacent cells spells is a key of the found-words map.          *)
(***************************************************************************)
C3_Complete ==
    HasEvaluated =>
        \A w \in Elements(word_list) :
            (Len(w) >= 3 /\ OnSimplePath(grid, w)) => w \in DOMAIN words

\* CAT and CATS found on a grid where A and T touch by a corner only
C3_Witness ==
    /\ HasEvaluated
    /\ grid = TestGrids[3]
    /\ {<<"C","A","T">>, <<"C","A","T","S">>} \subseteq DOMAIN words

C5_Scoring ==
    /\ \A w \in DOMAIN words : words[w] = PointsForLength(Len(w))
    /\ score = TotalPoints(words)

\* words of 3, 5, 6, 7, 8 and 9 letters found on one grid
C5_Witness ==
    /\ HasEvaluated
    /\ {Len(w) : w \in DOMAIN words} = {3, 5, 6, 7, 8, 9}
    /\ score > 11

(***************************************************************************)
(* The optimizers' records.                                                *)
(***************************************************************************)
Running == pc \in {"random_search", "hill_climbing"}

\* the best-ever record of the optimizer that is running
BestRecord(o) == [grid |-> o.best_grid, score |-> o.best_score, words |-> o.best_words]

\* the grid, score and words of the evaluation that ran last
LastEvaluation == [grid |-> grid, score |-> score, words |-> words]

Faces(die) == {die[k] : k \in 1..Len(die)}

IsGrid(g) ==
    /\ g # None
    /\ DOMAIN g = 0..(size - 1)
    /\ \A i \in DOMAIN g : DOMAIN g[i] = 0..(size - 1)

(***************************************************************************)
(* C6: in every step of random search and of hill climbing, the restart    *)
(* included, the best-ever score does not decrease, and the best-ever      *)
(* record changes only when the grid evaluated last in the step scores     *)
(* strictly more than the best so far; the record is then that grid with   *)
(* its score and its words.                                                *)
(***************************************************************************)
C6_BestEverMonotone ==
    [][(Running /\ pc' = pc) =>
          /\ opt'.best_score >= opt.best_score
          /\ (BestRecord(opt') # BestRecord(opt) =>
                 /\ score' > opt.best_score
                 /\ BestRecord(opt') = LastEvaluation')]_vars

\* random search has replaced its record in a round after the first by a better grid
C6_Witness ==
    /\ pc = "random_search"
    /\ opt.i >= 2
    /\ opt.best_score > 1
    /\ BestRecord(opt) = LastEvaluation

(***************************************************************************)
(* C7: a step of hill climbing over a cell either leaves the cell with the *)
(* letter it had, or has accepted a grid of a strictly higher score, and   *)
(* then the current grid, score and words are those of that grid.          *)
(***************************************************************************)
RestartsNow ==
    /\ opt.i = size - 1
    /\ opt.j = size - 1
    /\ (opt.iteration + 1) % RestartEvery = 0

C7_AcceptedOrRestored ==
    [][(pc = "hill_climbing" /\ pc' = pc /\ ~RestartsNow) =>
          \/ opt'.current_grid[opt.i][opt.j] = opt.current_grid[opt.i][opt.j]
          \/ /\ opt'.current_score > opt.current_score
             /\ opt'.current_grid = grid'
             /\ opt'.current_score = score'
             /\ opt'.current_words = words']_vars

(***************************************************************************)
(* C8: in every state of hill climbing, the letter of the current grid at  *)
(* (r, c) is a face of the die at index r * size + c of the current dice.  *)
(***************************************************************************)
C8_GridDieInvariant ==
    pc = "hill_climbing" =>
        \A c \in Cells :
            opt.current_grid[c[1]][c[2]] \in Faces(opt.current_dice[c[1] * size + c[2]])

(***************************************************************************)
(* C9: the grid an optimizer returns is a size x size grid.                *)
(***************************************************************************)
C9_ReturnedGridIsGrid ==
    HasLocal(main, "grid") => IsGrid(main.grid)

(***************************************************************************)
(* C10: with method 'both' main() raises no exception.                     *)
(***************************************************************************)
C10_BothCompletes ==
    args.method = "both" => error = None

(***************************************************************************)
(* C11: when a seed is supplied, 0 included, the run starts from the       *)
(* generator state that seed gives, whatever state the generator had.      *)
(***************************************************************************)
C11_SeededStream ==
    (pc = "start" /\ HasSeed(args)) => rng = Seeded(args.seed)

(***************************************************************************)
(* C12: with an iteration count of 0 or less no grid is evaluated and no   *)
(* optimizer returns a result.                                             *)
(***************************************************************************)
C12_NonPositiveIterationsRejected ==
    args.iterations <= 0 => (grid = None /\ ~HasLocal(main, "grid") /\ pc # "done")

(***************************************************************************)
(* The trie, against the word list.                                        *)
(***************************************************************************)
Letters == {"A", "C", "E", "N", "S", "T", "X"}

\* the prefixes of the words of Lexicon, the empty one included, and each of them
\* with one more letter
Paths ==
    LET prefixes == {SubSeq(Lexicon[n], 1, Min(k, Len(Lexicon[n]))) :
                        n \in 1..Len(Lexicon), k \in 0..MaxPath}
    IN prefixes \cup {Append(q, l) : q \in prefixes, l \in Letters}

IsPrefixOfWord(p) ==
    \E w \in Elements(word_list) : Len(p) <= Len(w) /\ SubSeq(w, 1, Len(p)) = p

\* the dict reached by p exists and holds the end marker
Terminal(p) == in_trie(p) /\ Append(p, "_end_") \in word_trie

(***************************************************************************)
(* C13, as stated: for every letter string p, in_trie(p) iff p is a prefix *)
(* of some word of the list.                                               *)
(***************************************************************************)
C13_InTrieIffPrefix ==
    \A p \in Paths : in_trie(p) <=> IsPrefixOfWord(p)

(***************************************************************************)
(* C13, amended: in_trie(p) iff p is empty or a prefix of some word of the *)
(* list; the dict reached by p holds the end marker iff p is a word of the *)
(* list; and the trie of the list with one of its words appended again is  *)
(* the trie of the list.                                                   *)
(***************************************************************************)
C13_Trie ==
    /\ \A p \in Paths :
          /\ in_trie(p) <=> (p = <<>> \/ IsPrefixOfWord(p))
          /\ Terminal(p) <=> p \in Elements(word_list)
    /\ \A w \in Elements(word_list) : make_trie(Append(word_list, w)) = word_trie

\* a list with CAT and CATS: CA is in the trie and is no word, CAT is a word and a
\* prefix, CAX is not in the trie
C13_Witness ==
    /\ {<<"C","A","T">>, <<"C","A","T","S">>} \subseteq Elements(word_list)
    /\ in_trie(<<"C","A">>) /\ ~Terminal(<<"C","A">>)
    /\ Terminal(<<"C","A","T">>) /\ Terminal(<<"C","A","T","S">>)
    /\ ~in_trie(<<"C","A","X">>)
    /\ HasEvaluated

(***************************************************************************)
(* C14: whenever an iteration of hill climbing is about to start, the      *)
(* current score and the current words are the score and the found-words   *)
(* map of the current grid.                                                *)
(***************************************************************************)
IterationStarts(o) ==
    o.i = 0 /\ o.j = 0 /\ o.iteration < args.iterations

C14_CurrentScoreOfCurrentGrid ==
    [][(pc' = "hill_climbing" /\ IterationStarts(opt')) =>
          LET r == calculate_grid_score(opt'.current_grid)
          IN /\ opt'.current_score = r.score
             /\ opt'.current_words = r.words]_vars

(***************************************************************************)
(* C15: every letter of the grid random search returns is a face of the    *)
(* die at the cell's row-major index in the dice it returns with it.       *)
(***************************************************************************)
C15_ReturnedDiceOfReturnedGrid ==
    (HasLocal(main, "dice") /\ main.grid # None) =>
        \A c \in Cells :
            main.grid[c[1]][c[2]] \in Faces(main.dice[c[1] * size + c[2]])

\* the longest word of the list has LongestWord letters
LongestWord ==
    IF word_list = <<>> THEN 0
    ELSE CHOOSE n \in {Len(w) : w \in Elements(word_list)} :
            \A w \in Elements(word_list) : Len(w) <= n

(***************************************************************************)
(* C16: find_words_in_grid returns, and the calls of dfs active at once    *)
(* are never more than the letters of the longest word of the list, plus   *)
(* one.                                                                    *)
(***************************************************************************)
C16_DepthBounded ==
    HasEvaluated => (depth >= 1 /\ depth <= LongestWord + 1)

\* TENSENESS, the longest word of the list, was found on a grid with two S and two E:
\* cells were revisited, and the deepest call held one letter more than the word
C16_Witness ==
    /\ HasEvaluated
    /\ grid = TestGrids[2]
    /\ LongestWord = 9
    /\ <<"T","E","N","S","E","N","E","S","S">> \in DOMAIN words
    /\ depth = LongestWord + 1

====
